---- MODULE Spec2Model ----
(***************************************************************************)
(* Model of mobec's EntityList (src/src/entity_list.rs, src/src/iter.rs):  *)
(* a generational arena of entities plus one optional bitset per component *)
(* type, and the two filtered-traversal engines built on them.             *)
(*                                                                         *)
(* Arena<E> (crate generational_arena) and BitSet (crate hibitset) are     *)
(* modelled by what the calls made from this repository do:                *)
(*   Arena  = items (Vec<Entry>), generation (one counter for the whole    *)
(*            arena, bumped by every removal), free_list_head, len;        *)
(*   BitSet = the set of positions whose bit is set; BitIter enumerates a  *)
(*            bitset in ascending position.                                *)
(***************************************************************************)
EXTENDS Integers, Sequences, FiniteSets, TLC

\* ---------------------------------------------------------------- bounds
MaxCap == 2          \* the arena's Vec never grows beyond this many slots
MaxGeneration == 2   \* removals stop once the arena generation reaches this
MaxIssued == 3       \* number of insert calls in one behaviour

\* ------------------------------------------------------ component schema
\* define_entity!: two declared component types (tests/serde.rs: a, b)
Comps == {"A", "B"}
\* component payloads; 0 stands for Option::None.  ComponentA carries two
\* distinguishable payloads (so that a replaced value is visible), ComponentB one
NoneC == 0
Vals(c) == IF c = "A" THEN {1, 2} ELSE {1}
\* the payload a component has when the record is built with Entity::with
InitVals == {1}

\* Option<usize>::None for next_free / free_list_head
NoIdx == -1

\* BitSetAll: every position of the bitset universe, which is far larger
\* than any pool; two positions beyond the largest pool stand for the rest
NumBits == MaxCap + 2
BitSetAll == 0 .. (NumBits - 1)

\* ------------------------------------------------------------- entities
\* EntityBase::new: properties set, every component None
EntityNew(p) == [prop |-> p, comps |-> [c \in Comps |-> NoneC]]

\* variant of Component::set that keeps a value already present
ComponentSetIfAbsent(e, c, v) ==
    IF e.comps[c] = NoneC THEN [e EXCEPT !.comps[c] = v] ELSE e

\* Component::set
ComponentSet(e, c, v) == [e EXCEPT !.comps[c] = v]

\* variant of Component::remove that empties every component slot
ComponentRemoveAll(e, c) == [e EXCEPT !.comps = [d \in Comps |-> NoneC]]

\* Component::remove (Option::take): the entity afterwards
ComponentRemove(e, c) == [e EXCEPT !.comps[c] = NoneC]

\* EntityBase::has
Has(e, c) == e.comps[c] # NoneC

\* EntityBase::for_each_active_component: the type ids the callback receives
ActiveComponents(e) == {c \in Comps : e.comps[c] # NoneC}

NoEntity == EntityNew(0)

\* --------------------------------------------------------------- arena
FreeEntry(nf) == [occ |-> FALSE, generation |-> 0, value |-> NoEntity, next_free |-> nf]
OccEntry(g, v) == [occ |-> TRUE, generation |-> g, value |-> v, next_free |-> NoIdx]

\* Arena::new
ArenaNew == [items |-> << >>, generation |-> 0, free_list_head |-> NoIdx, len |-> 0]

\* Arena::capacity
ArenaCapacity(a) == Len(a.items)

MkId(i, g) == [index |-> i, generation |-> g]
NoId == MkId(NoIdx, 0)

\* variant of Arena::reserve that puts the new free entries in front of the
\* old ones
ArenaReserveShifting(a, additional) ==
    LET fresh == [k \in 1 .. additional |->
                    IF k = additional THEN FreeEntry(NoIdx) ELSE FreeEntry(k)]
    IN [a EXCEPT !.items = fresh \o a.items, !.free_list_head = 0]

\* Arena::reserve: push `additional` free entries, chained, onto the free list
ArenaReserve(a, additional) ==
    LET start == Len(a.items)
        end == start + additional
        fresh == [k \in 1 .. additional |->
                    IF start + k - 1 = end - 1
                    THEN FreeEntry(a.free_list_head)
                    ELSE FreeEntry(start + k)]
    IN [a EXCEPT !.items = a.items \o fresh, !.free_list_head = start]

\* variant of Arena::try_insert that stamps every entry with generation 0
ArenaTryInsertGen0(a, v) ==
    LET i == a.free_list_head
    IN [arena |-> [a EXCEPT !.items[i + 1] = [occ |-> TRUE, generation |-> 0,
                                              value |-> v, next_free |-> -1],
                            !.free_list_head = a.items[i + 1].next_free,
                            !.len = a.len + 1],
        id |-> [index |-> i, generation |-> 0]]

\* Arena::try_insert on a non-empty free list
ArenaTryInsert(a, v) ==
    LET i == a.free_list_head
    IN [arena |-> [a EXCEPT !.items[i + 1] = OccEntry(a.generation, v),
                            !.free_list_head = a.items[i + 1].next_free,
                            !.len = a.len + 1],
        id |-> MkId(i, a.generation)]

\* Arena::insert: try_insert, else double the capacity and retry
ArenaInsert(a, v) ==
    IF a.free_list_head # NoIdx
    THEN ArenaTryInsert(a, v)
    ELSE ArenaTryInsert(ArenaReserve(a, IF ArenaCapacity(a) = 0 THEN 1 ELSE Len(a.items)), v)

\* Arena::contains / Arena::get(..).is_some()
ArenaContains(a, id) ==
    /\ id.index >= 0
    /\ id.index < Len(a.items)
    /\ a.items[id.index + 1].occ
    /\ a.items[id.index + 1].generation = id.generation

\* Arena::get (NoEntity for None; callers test ArenaContains)
ArenaGet(a, id) == IF ArenaContains(a, id) THEN a.items[id.index + 1].value ELSE NoEntity

\* variant of Arena::remove that leaves the arena's generation counter alone
ArenaRemoveKeepGeneration(a, id) ==
    IF ArenaContains(a, id)
    THEN [a EXCEPT !.items[id.index + 1] = FreeEntry(a.free_list_head),
                   !.free_list_head = id.index,
                   !.len = a.len - 1]
    ELSE a

\* variant of Arena::remove that restarts the arena's generation counter
ArenaRemoveResetGeneration(a, id) ==
    IF ArenaContains(a, id)
    THEN [a EXCEPT !.items[id.index + 1] = FreeEntry(a.free_list_head),
                   !.generation = 0,
                   !.free_list_head = id.index,
                   !.len = a.len - 1]
    ELSE a

\* variant of Arena::remove that leaves the arena's len alone
ArenaRemoveKeepLen(a, id) ==
    IF ArenaContains(a, id)
    THEN [a EXCEPT !.items[id.index + 1] = FreeEntry(a.free_list_head),
                   !.generation = a.generation + 1,
                   !.free_list_head = id.index]
    ELSE a

\* Arena::remove of a live id
ArenaRemove(a, id) ==
    IF ArenaContains(a, id)
    THEN [a EXCEPT !.items[id.index + 1] = FreeEntry(a.free_list_head),
                   !.generation = a.generation + 1,
                   !.free_list_head = id.index,
                   !.len = a.len - 1]
    ELSE a

\* Arena::get_unknown_gen: is there a record at raw position n
ArenaOccupiedAt(a, n) == n < Len(a.items) /\ a.items[n + 1].occ

\* variant of get_unknown_gen that reports the generation of the slot's
\* first record
ArenaIdAtFirstGeneration(a, n) == MkId(n, 0)

\* the id get_unknown_gen reports for position n
ArenaIdAt(a, n) == MkId(n, a.items[n + 1].generation)

\* ------------------------------------------------------------- bitsets
NoBitSet == [present |-> FALSE, bits |-> {}]
MkBitSet(s) == [present |-> TRUE, bits |-> s]

\* BitSet::add
BitSetAdd(bs, n) == bs \cup {n}

\* BitSet::remove
BitSetRemove(bs, n) == bs \ {n}

\* variant of the bit update that never sets the bit
NoteAddedNever(b, c, n) == b

\* variant of the bit update that creates the bitset when there is none
NoteAddedCreating(b, c, n) == [b EXCEPT ![c] = MkBitSet(BitSetAdd(b[c].bits, n))]

\* `if let Some(bitset) = self.bitsets.get_mut(&type_id) { bitset.add(n) }`
NoteAdded(b, c, n) ==
    IF b[c].present THEN [b EXCEPT ![c].bits = BitSetAdd(b[c].bits, n)] ELSE b

\* `if let Some(bitset) = self.bitsets.get_mut(&type_id) { bitset.remove(n) }`
NoteRemoved(b, c, n) ==
    IF b[c].present THEN [b EXCEPT ![c].bits = BitSetRemove(b[c].bits, n)] ELSE b

\* variant of BitSetAnd that gives its left operand
BitSetAndLeft(x, y) == x

\* BitSetAnd
BitSetAnd(x, y) == x \cap y

\* variant of BitIter that enumerates highest position first
RECURSIVE BitIterDescending(_)
BitIterDescending(bs) ==
    IF bs = {} THEN << >>
    ELSE LET n == CHOOSE m \in bs : \A k \in bs : m >= k
         IN <<n>> \o BitIterDescending(bs \ {n})

\* variant of BitIter that gives every position twice
RECURSIVE BitIterRepeating(_)
BitIterRepeating(bs) ==
    IF bs = {} THEN << >>
    ELSE LET n == CHOOSE m \in bs : \A k \in bs : m <= k
         IN <<n, n>> \o BitIterRepeating(bs \ {n})

\* BitIter: the set positions of a bitset, lowest first
RECURSIVE BitIter(_)
BitIter(bs) ==
    IF bs = {} THEN << >>
    ELSE LET n == CHOOSE m \in bs : \A k \in bs : m <= k
         IN <<n>> \o BitIter(bs \ {n})

\* ------------------------------------------- traversals: entity_list.rs
\* component tuples a query can name (tuples of one or two types)
Tuples == {<<c>> : c \in Comps} \cup {<<c, d>> : c \in Comps, d \in Comps}

\* Arena::iter / EntityList::iter, iter_all: the occupied entries by position
RECURSIVE ArenaIterFrom(_, _)
ArenaIterFrom(a, n) ==
    IF n >= ArenaCapacity(a) THEN << >>
    ELSE IF a.items[n + 1].occ
         THEN <<[id |-> ArenaIdAt(a, n), value |-> a.items[n + 1].value]>> \o ArenaIterFrom(a, n + 1)
         ELSE ArenaIterFrom(a, n + 1)

ArenaIter(a) == ArenaIterFrom(a, 0)

\* variant of MultiComponent::iter in which a type without bitset matches nothing
RECURSIVE DefensiveBitSetMissingEmpty(_, _, _)
DefensiveBitSetMissingEmpty(b, tuple, acc) ==
    IF tuple = << >> THEN acc
    ELSE LET c == Head(tuple)
         IN DefensiveBitSetMissingEmpty(b, Tail(tuple),
                BitSetAnd(acc, IF b[c].present THEN b[c].bits ELSE {}))

\* multi_component_impl!, MultiComponent::iter: BitSetAll and-ed with the bitset
\* of each type of the tuple, BitSetAll standing in for a type without bitset
RECURSIVE DefensiveBitSet(_, _, _)
DefensiveBitSet(b, tuple, acc) ==
    IF tuple = << >> THEN acc
    ELSE LET c == Head(tuple)
         IN DefensiveBitSet(b, Tail(tuple),
                BitSetAnd(acc, IF b[c].present THEN b[c].bits ELSE BitSetAll))

\* variant of entity_has_components that accepts every record
EntityHasComponentsAny(e, tuple) == TRUE

\* multi_component_impl!, MultiComponent::entity_has_components
EntityHasComponents(e, tuple) == \A k \in 1 .. Len(tuple) : Has(e, tuple[k])

\* MultiComponentIter::next / MultiComponentIterMut::next of entity_list.rs, run
\* to the end: positions with no record or failing the re-check are skipped
RECURSIVE DefensiveDrain(_, _, _)
DefensiveDrain(a, tuple, positions) ==
    IF positions = << >> THEN << >>
    ELSE LET n == Head(positions)
         IN IF ArenaOccupiedAt(a, n) /\ EntityHasComponents(a.items[n + 1].value, tuple)
            THEN <<[id |-> ArenaIdAt(a, n), value |-> a.items[n + 1].value]>>
                     \o DefensiveDrain(a, tuple, Tail(positions))
            ELSE DefensiveDrain(a, tuple, Tail(positions))

\* EntityList::iter_for_components / iter_mut_for_components
IterForComponents(a, b, tuple) ==
    DefensiveDrain(a, tuple, BitIter(DefensiveBitSet(b, tuple, BitSetAll)))

\* --------------------------------------------------- traversals: iter.rs
\* MultiComponent::bitset: () is BitSetAll, (C,) is C's bitset and fails when
\* there is none, longer tuples and the two halves Split gives
RECURSIVE TrustingBitSet(_, _)
TrustingBitSet(b, tuple) ==
    IF Len(tuple) = 0 THEN [panic |-> FALSE, bits |-> BitSetAll]
    ELSE IF Len(tuple) = 1
         THEN IF b[tuple[1]].present
              THEN [panic |-> FALSE, bits |-> b[tuple[1]].bits]
              ELSE [panic |-> TRUE, bits |-> {}]
         ELSE LET h == Len(tuple) \div 2
                  l == TrustingBitSet(b, SubSeq(tuple, 1, h))
                  r == TrustingBitSet(b, SubSeq(tuple, h + 1, Len(tuple)))
              IN [panic |-> l.panic \/ r.panic, bits |-> BitSetAnd(l.bits, r.bits)]

\* variant of the trusting next() that passes over a position without a record
RECURSIVE TrustingDrainSkipping(_, _)
TrustingDrainSkipping(a, positions) ==
    IF positions = << >> THEN [panic |-> FALSE, out |-> << >>]
    ELSE LET n == Head(positions)
             rest == TrustingDrainSkipping(a, Tail(positions))
         IN IF ArenaOccupiedAt(a, n)
            THEN [panic |-> rest.panic,
                  out |-> <<[id |-> ArenaIdAt(a, n), value |-> a.items[n + 1].value]>> \o rest.out]
            ELSE rest

\* MultiComponentIter::next / MultiComponentIterMut::next of iter.rs, run to the
\* end or to the first position without a record, where expect() panics
RECURSIVE TrustingDrain(_, _)
TrustingDrain(a, positions) ==
    IF positions = << >> THEN [panic |-> FALSE, out |-> << >>]
    ELSE LET n == Head(positions)
         IN IF ArenaOccupiedAt(a, n)
            THEN LET rest == TrustingDrain(a, Tail(positions))
                 IN [panic |-> rest.panic,
                     out |-> <<[id |-> ArenaIdAt(a, n), value |-> a.items[n + 1].value]>> \o rest.out]
            ELSE [panic |-> TRUE, out |-> << >>]

\* EntityList::iter::<C> / iter_mut::<C> of iter.rs
TrustingIter(a, b, tuple) ==
    LET bs == TrustingBitSet(b, tuple)
    IN IF bs.panic THEN [panic |-> TRUE, out |-> << >>]
       ELSE TrustingDrain(a, BitIter(bs.bits))

\* ------------------------------------- mutable traversals' debug assertion
\* `if let Some(old_n) = self.n { debug_assert!(n > old_n); } self.n = Some(n);`
\* run over the positions a ...Mut iterator consumes: TRUE iff no assertion fails
RECURSIVE DebugAssertHolds(_, _)
DebugAssertHolds(positions, old_n) ==
    IF positions = << >> THEN TRUE
    ELSE /\ old_n # NoIdx => Head(positions) > old_n
         /\ DebugAssertHolds(Tail(positions), Head(positions))

\* iter_mut_for_components: n is every position bitset_iter gives, skipped or not
DefensiveMutConsumed(b, tuple) == BitIter(DefensiveBitSet(b, tuple, BitSetAll))

\* iter_mut::<C> of iter.rs: n is the slot index of every id it got from the arena
TrustingMutConsumed(a, b, tuple) ==
    LET out == TrustingIter(a, b, tuple).out
    IN [k \in 1 .. Len(out) |-> out[k].id.index]

\* ---------------------------------------------------------------- state
\* entities, bitsets: the two fields of EntityList
\* issued:  the EntityIds insert has returned, in call order
\* removed: the EntityIds whose record remove or retain has taken out
\* last:    which call came last and what it returned
\* iters:   the traversals in progress, each borrowing the list for its lifetime
\* twin:    the bitsets field of a second EntityList that receives the same
\*          insert / remove / component / retain calls as this one, but none
\*          of its add_bitset_for_component / remove_bitset_for_component calls
VARIABLES entities, bitsets, issued, removed, last, iters, twin

vars == <<entities, bitsets, issued, removed, last, iters, twin>>

\* the traversals a caller keeps alive at the same time
IterSlots == {1, 2}

\* a traversal: which file's iterator it is (engine), bitset_iter / iter (rest:
\* the positions BitIter has still to give), the tuple C, whether it is a
\* ...Mut iterator, and its debug field n
NoIter == [live |-> FALSE, engine |-> "none", mutable |-> FALSE, tuple |-> << >>,
           rest |-> << >>, n |-> -1]

\* variant of the exclusive borrow that tolerates immutable traversals
UnborrowedButReaders == \A k \in IterSlots : iters[k].live => ~iters[k].mutable

\* `&mut self`: the call needs the list unborrowed
Unborrowed == \A k \in IterSlots : ~iters[k].live

\* `&self`: the call needs the list free of mutable borrows
NotMutBorrowed == \A k \in IterSlots : iters[k].live => ~iters[k].mutable

\* an id that no insert ever returns: its slot index lies beyond the largest pool
UnknownIds == {MkId(MaxCap, 0)}

\* what the last call returned: id = the EntityId insert returned (for a remove
\* that returned Some: the id it was given), some = the
\* Option returned is Some (the bool returned is true; for add_bitset: the
\* HashMap::insert inside it returned Some, a bitset was replaced), val = the
\* component inside a returned Some
NoCall == [op |-> "new", id |-> NoId, some |-> FALSE, val |-> NoneC]

\* EntityList::new
Init ==
    /\ entities = ArenaNew
    /\ bitsets = [c \in Comps |-> NoBitSet]
    /\ issued = << >>
    /\ removed = {}
    /\ last = NoCall
    /\ iters = [k \in IterSlots |-> NoIter]
    /\ twin = [c \in Comps |-> NoBitSet]

\* every id a caller can hold (live or stale) or make up
IssuedIds == {issued[k] : k \in 1 .. Len(issued)}
CallerIds == IssuedIds \cup UnknownIds

\* the entities a caller can pass to insert: a property that tells the records
\* apart (the k-th inserted record carries k) and any
\* combination of initial components (Entity::new(..).with(..))
NewEntities ==
    {[prop |-> Len(issued) + 1, comps |-> cs] :
        cs \in [Comps -> InitVals \cup {NoneC}]}

\* variant of EntityList::insert that leaves the bitsets alone
BitsetsAfterInsertNone(b, e, n) == b

\* EntityList::insert: the bitset updates made for the inserted record e
BitsetsAfterInsert(b, e, n) ==
    [c \in Comps |-> IF c \in ActiveComponents(e) THEN NoteAdded(b, c, n)[c] ELSE b[c]]

Insert(e) ==
    /\ Unborrowed
    /\ Len(issued) < MaxIssued
    /\ entities.free_list_head # NoIdx \/ 2 * ArenaCapacity(entities) <= MaxCap
    /\ LET r == ArenaInsert(entities, e)
       IN /\ entities' = r.arena
          /\ bitsets' = BitsetsAfterInsert(bitsets, e, r.id.index)
          /\ issued' = Append(issued, r.id)
          /\ last' = [NoCall EXCEPT !.op = "insert", !.id = r.id]
          /\ twin' = BitsetsAfterInsert(twin, e, r.id.index)
    /\ UNCHANGED <<removed, iters>>

\* variant of EntityList::remove that leaves the bitsets alone
BitsetsAfterRemoveNone(b, e, n) == b

\* EntityList::remove: the bitset updates made for the removed record e
BitsetsAfterRemove(b, e, n) ==
    [c \in Comps |-> IF c \in ActiveComponents(e) THEN NoteRemoved(b, c, n)[c] ELSE b[c]]

\* EntityList::remove
Remove(id) ==
    /\ Unborrowed
    /\ ArenaContains(entities, id) => entities.generation < MaxGeneration
    /\ LET live == ArenaContains(entities, id)
           e == ArenaGet(entities, id)
       IN /\ last' = [NoCall EXCEPT !.op = "remove", !.some = live,
                                    !.id = IF live THEN id ELSE NoId]
          /\ removed' = IF live THEN removed \cup {id} ELSE removed
          /\ entities' = ArenaRemove(entities, id)
          /\ bitsets' = IF live THEN BitsetsAfterRemove(bitsets, e, id.index) ELSE bitsets
          /\ twin' = IF live THEN BitsetsAfterRemove(twin, e, id.index) ELSE twin
    /\ UNCHANGED <<issued, iters>>

\* `match self.entities.get_mut(entity_id) { Some(e) => component.set(e), .. }`
ArenaSetComponent(a, id, c, v) ==
    IF ArenaContains(a, id)
    THEN [a EXCEPT !.items[id.index + 1].value = ComponentSet(a.items[id.index + 1].value, c, v)]
    ELSE a

\* `self.entities.get_mut(entity_id).and_then(C::remove)`: the arena afterwards
ArenaTakeComponent(a, id, c) ==
    IF ArenaContains(a, id)
    THEN [a EXCEPT !.items[id.index + 1].value = ComponentRemove(a.items[id.index + 1].value, c)]
    ELSE a

\* variant of add_component_for_entity that leaves the bitsets alone
BitsetsAfterAddComponentNever(b, maybe_component, c, n) == b

\* variant of add_component_for_entity that updates the bitset unconditionally
BitsetsAfterAddComponentAlways(b, maybe_component, c, n) == NoteAdded(b, c, n)

\* add_component_for_entity: the bitset update, made when the component was
\* applied (maybe_component is None)
BitsetsAfterAddComponent(b, maybe_component, c, n) ==
    IF maybe_component = NoneC THEN NoteAdded(b, c, n) ELSE b

\* variant of remove_component_for_entity that leaves the bitsets alone
BitsetsAfterRemoveComponentNever(b, maybe_component, c, n) == b

\* variant of remove_component_for_entity that clears the bit unconditionally
BitsetsAfterRemoveComponentAlways(b, maybe_component, c, n) == NoteRemoved(b, c, n)

\* remove_component_for_entity: the bitset update, made when a component was
\* taken out (maybe_component is Some)
BitsetsAfterRemoveComponent(b, maybe_component, c, n) ==
    IF maybe_component # NoneC THEN NoteRemoved(b, c, n) ELSE b

\* EntityList::add_component_for_entity::<C>(entity_id, component)
AddComponentForEntity(id, c, v) ==
    /\ Unborrowed
    /\ LET maybe_component == IF ArenaContains(entities, id) THEN NoneC ELSE v
       IN /\ last' = [NoCall EXCEPT !.op = "add_component",
                                    !.some = (maybe_component # NoneC),
                                    !.val = maybe_component]
          /\ entities' = ArenaSetComponent(entities, id, c, v)
          /\ bitsets' = BitsetsAfterAddComponent(bitsets, maybe_component, c, id.index)
          /\ twin' = BitsetsAfterAddComponent(twin, maybe_component, c, id.index)
    /\ UNCHANGED <<issued, removed, iters>>

\* EntityList::remove_component_for_entity::<C>(entity_id)
RemoveComponentForEntity(id, c) ==
    /\ Unborrowed
    /\ LET maybe_component == ArenaGet(entities, id).comps[c]
       IN /\ last' = [NoCall EXCEPT !.op = "remove_component",
                                    !.some = (maybe_component # NoneC),
                                    !.val = maybe_component]
          /\ entities' = ArenaTakeComponent(entities, id, c)
          /\ bitsets' = BitsetsAfterRemoveComponent(bitsets, maybe_component, c, id.index)
          /\ twin' = BitsetsAfterRemoveComponent(twin, maybe_component, c, id.index)
    /\ UNCHANGED <<issued, removed, iters>>

\* variant of the scan that sets the bit of every occupied slot
ScanBitSetAllOccupied(a, c) ==
    {n \in 0 .. (ArenaCapacity(a) - 1) : a.items[n + 1].occ}

\* `for (entity_id, entity) in &self.entities { if entity.has::<C>() { bitset.add(..) } }`
ScanBitSet(a, c) ==
    {n \in 0 .. (ArenaCapacity(a) - 1) : a.items[n + 1].occ /\ Has(a.items[n + 1].value, c)}

\* EntityList::add_bitset_for_component::<C>()
AddBitsetForComponent(c) ==
    /\ Unborrowed
    /\ last' = [NoCall EXCEPT !.op = "add_bitset", !.some = bitsets[c].present]
    /\ bitsets' = [bitsets EXCEPT ![c] = MkBitSet(ScanBitSet(entities, c))]
    /\ UNCHANGED <<entities, issued, removed, iters, twin>>

\* variant of remove_bitset_for_component that clears the registered bitset's
\* bits and keeps it registered
BitsetsAfterRemoveBitsetCleared(b, c) == [b EXCEPT ![c].bits = {}]

\* `self.bitsets.remove(&TypeId::of::<C>())`; the loop before it clears bits of
\* a bitset of its own, which is dropped
BitsetsAfterRemoveBitset(b, c) == [b EXCEPT ![c] = NoBitSet]

\* EntityList::remove_bitset_for_component::<C>()
RemoveBitsetForComponent(c) ==
    /\ Unborrowed
    /\ last' = [NoCall EXCEPT !.op = "remove_bitset", !.some = bitsets[c].present]
    /\ bitsets' = BitsetsAfterRemoveBitset(bitsets, c)
    /\ UNCHANGED <<entities, issued, removed, iters, twin>>

\* Arena::retain keeps the entries for which its closure returns true and
\* removes the others
ArenaRetainKeeps(closureResult) == closureResult

\* EntityList::retain: the closure handed to Arena::retain, run on slot i, then
\* Arena::retain's own step for that slot; dels = the ids for which the caller's
\* predicate returns true
RECURSIVE RetainLoop(_, _, _, _)
RetainLoop(a, b, i, dels) ==
    IF i >= ArenaCapacity(a) THEN [arena |-> a, bitsets |-> b]
    ELSE IF ~a.items[i + 1].occ THEN RetainLoop(a, b, i + 1, dels)
    ELSE LET index == ArenaIdAt(a, i)
             e == a.items[i + 1].value
             should_delete == index \in dels
             b2 == IF should_delete THEN BitsetsAfterRemove(b, e, i) ELSE b
             a2 == IF ArenaRetainKeeps(should_delete) THEN a ELSE ArenaRemove(a, index)
         IN RetainLoop(a2, b2, i + 1, dels)

LiveIds(a) == {ArenaIdAt(a, n) : n \in {m \in 0 .. (ArenaCapacity(a) - 1) : a.items[m + 1].occ}}

Retain(dels) ==
    /\ Unborrowed
    /\ entities.generation + entities.len <= MaxGeneration
    /\ LET r == RetainLoop(entities, bitsets, 0, dels)
       IN /\ entities' = r.arena
          /\ bitsets' = r.bitsets
          /\ removed' = removed \cup {id \in LiveIds(entities) : ~ArenaRetainKeeps(id \in dels)}
          /\ last' = [NoCall EXCEPT !.op = "retain"]
          /\ twin' = RetainLoop(entities, twin, 0, dels).bitsets
    /\ UNCHANGED <<issued, iters>>

Next ==
    \/ \E e \in NewEntities : Insert(e)
    \/ \E id \in CallerIds : Remove(id)
    \/ \E id \in CallerIds, c \in Comps : \E v \in Vals(c) : AddComponentForEntity(id, c, v)
    \/ \E id \in CallerIds, c \in Comps : RemoveComponentForEntity(id, c)
    \/ \E c \in Comps : AddBitsetForComponent(c)
    \/ \E c \in Comps : RemoveBitsetForComponent(c)

Spec == Init /\ [][Next]_vars

NextRetain ==
    \/ Next
    \/ \E dels \in SUBSET LiveIds(entities) : Retain(dels)

SpecRetain == Init /\ [][NextRetain]_vars

\* ------------------------------------------------- two lists side by side
\* EntityList::new() followed by add_bitset_for_component for every component
\* type, on this list and on the second one ("typically done at the very start")
InitTwin ==
    /\ entities = ArenaNew
    /\ bitsets = [c \in Comps |-> MkBitSet(ScanBitSet(ArenaNew, c))]
    /\ issued = << >>
    /\ removed = {}
    /\ last = NoCall
    /\ iters = [k \in IterSlots |-> NoIter]
    /\ twin = [c \in Comps |-> MkBitSet(ScanBitSet(ArenaNew, c))]

SpecTwin == InitTwin /\ [][Next]_vars

\* ------------------------------------------------- traversals, stepwise
\* the tuples the stepwise traversals are started with
TraversalTuples == {<<"A">>}

\* MultiComponentIter::new / MultiComponentIterMut::new
NewIter(engine, mutable, tuple, positions) ==
    [live |-> TRUE, engine |-> engine, mutable |-> mutable, tuple |-> tuple,
     rest |-> positions, n |-> NoIdx]

\* EntityList::iter_for_components::<C>(&'a self)
IterForComponentsStart(k, tuple) ==
    /\ ~iters[k].live
    /\ NotMutBorrowed
    /\ last' = [NoCall EXCEPT !.op = "iter"]
    /\ iters' = [iters EXCEPT ![k] =
           NewIter("defensive", FALSE, tuple, BitIter(DefensiveBitSet(bitsets, tuple, BitSetAll)))]
    /\ UNCHANGED <<entities, bitsets, issued, removed, twin>>

\* EntityList::iter_mut_for_components::<C>(&'a mut self)
IterMutForComponentsStart(k, tuple) ==
    /\ ~iters[k].live
    /\ Unborrowed
    /\ last' = [NoCall EXCEPT !.op = "iter"]
    /\ iters' = [iters EXCEPT ![k] =
           NewIter("defensive", TRUE, tuple, BitIter(DefensiveBitSet(bitsets, tuple, BitSetAll)))]
    /\ UNCHANGED <<entities, bitsets, issued, removed, twin>>

\* MultiComponent::iter / iter_mut of iter.rs: bitset() panics before any
\* iterator exists when a type of the tuple has no bitset
TrustingStart(k, mutable, tuple) ==
    LET bs == TrustingBitSet(bitsets, tuple)
    IN /\ last' = [NoCall EXCEPT !.op = IF bs.panic THEN "panic" ELSE "iter"]
       /\ iters' = IF bs.panic THEN iters
                   ELSE [iters EXCEPT ![k] = NewIter("trusting", mutable, tuple, BitIter(bs.bits))]
       /\ UNCHANGED <<entities, bitsets, issued, removed, twin>>

\* EntityList::iter::<C>(&'a self) of iter.rs
IterStart(k, tuple) ==
    /\ ~iters[k].live
    /\ NotMutBorrowed
    /\ TrustingStart(k, FALSE, tuple)

\* EntityList::iter_mut::<C>(&'a mut self) of iter.rs
IterMutStart(k, tuple) ==
    /\ ~iters[k].live
    /\ Unborrowed
    /\ TrustingStart(k, TRUE, tuple)

\* variant of the traversal's use of the bitsets in which BitIter clears the
\* bits it gives
BitsetsDrainedByNext(b, tuple, consumed) ==
    [c \in Comps |->
        IF b[c].present /\ \E j \in 1 .. Len(tuple) : tuple[j] = c
        THEN [b[c] EXCEPT !.bits = b[c].bits \ {consumed[j] : j \in 1 .. Len(consumed)}]
        ELSE b[c]]

\* `C::iter(&self.bitsets)`: the iterator holds the bitsets by shared
\* reference; consuming positions leaves them as they are
BitsetsAfterNext(b, tuple, consumed) == b

\* variant of the loop of next() that leaves the position it returns in the
\* bitset iterator
RECURSIVE DefensiveSkipRewinding(_, _, _)
DefensiveSkipRewinding(a, tuple, positions) ==
    IF positions = << >> THEN << >>
    ELSE IF ArenaOccupiedAt(a, Head(positions))
            /\ EntityHasComponents(a.items[Head(positions) + 1].value, tuple)
         THEN <<Head(positions)>> \o positions
         ELSE DefensiveSkipRewinding(a, tuple, Tail(positions))

\* `while let Some(n) = self.bitset_iter.next() { match .. { Some(..) if
\* C::entity_has_components(el) => return .., _ => continue } }`: the positions
\* from the first one that is returned on (<< >> when the loop runs out)
RECURSIVE DefensiveSkip(_, _, _)
DefensiveSkip(a, tuple, positions) ==
    IF positions = << >> THEN << >>
    ELSE IF ArenaOccupiedAt(a, Head(positions))
            /\ EntityHasComponents(a.items[Head(positions) + 1].value, tuple)
         THEN positions
         ELSE DefensiveSkip(a, tuple, Tail(positions))

\* MultiComponentIter::next / MultiComponentIterMut::next of entity_list.rs, one call
DefensiveNext(k) ==
    /\ iters[k].live
    /\ iters[k].engine = "defensive"
    /\ LET it == iters[k]
           found == DefensiveSkip(entities, it.tuple, it.rest)
           consumed == SubSeq(it.rest, 1, Len(it.rest) - Len(found) + (IF found = << >> THEN 0 ELSE 1))
       IN IF it.mutable /\ ~DebugAssertHolds(consumed, it.n)
          THEN /\ last' = [NoCall EXCEPT !.op = "panic"]
               /\ iters' = [iters EXCEPT ![k] = NoIter]
          ELSE /\ last' = [NoCall EXCEPT !.op = "next", !.some = (found # << >>),
                                         !.id = IF found = << >> THEN NoId
                                                ELSE ArenaIdAt(entities, Head(found))]
               /\ iters' = [iters EXCEPT
                      ![k].rest = IF found = << >> THEN << >> ELSE Tail(found),
                      ![k].n = IF it.mutable /\ consumed # << >>
                               THEN consumed[Len(consumed)] ELSE it.n]
    /\ bitsets' = BitsetsAfterNext(bitsets, iters[k].tuple, iters[k].rest)
    /\ UNCHANGED <<entities, issued, removed, twin>>

\* MultiComponentIter::next / MultiComponentIterMut::next of iter.rs, one call;
\* a panic unwinds and drops the iterator
TrustingNext(k) ==
    /\ iters[k].live
    /\ iters[k].engine = "trusting"
    /\ LET it == iters[k]
       IN IF it.rest = << >>
          THEN /\ last' = [NoCall EXCEPT !.op = "next"]
               /\ UNCHANGED iters
          ELSE IF ~ArenaOccupiedAt(entities, Head(it.rest))
                  \/ (it.mutable /\ ~DebugAssertHolds(<<Head(it.rest)>>, it.n))
               THEN /\ last' = [NoCall EXCEPT !.op = "panic"]
                    /\ iters' = [iters EXCEPT ![k] = NoIter]
               ELSE /\ last' = [NoCall EXCEPT !.op = "next", !.some = TRUE,
                                              !.id = ArenaIdAt(entities, Head(it.rest))]
                    /\ iters' = [iters EXCEPT ![k].rest = Tail(it.rest),
                                              ![k].n = IF it.mutable THEN Head(it.rest) ELSE it.n]
    /\ bitsets' = BitsetsAfterNext(bitsets, iters[k].tuple,
                                   IF iters[k].rest = << >> THEN << >>
                                   ELSE <<Head(iters[k].rest)>>)
    /\ UNCHANGED <<entities, issued, removed, twin>>

\* EntityList::iter / iter_all (&'a self) and iter_mut / iter_all_mut
\* (&'a mut self): Arena::iter over every entry of the pool
IterAllStart(k, mutable) ==
    /\ ~iters[k].live
    /\ IF mutable THEN Unborrowed ELSE NotMutBorrowed
    /\ last' = [NoCall EXCEPT !.op = "iter"]
    /\ iters' = [iters EXCEPT ![k] =
           NewIter("arena", mutable, << >>, [j \in 1 .. ArenaCapacity(entities) |-> j - 1])]
    /\ UNCHANGED <<entities, bitsets, issued, removed, twin>>

\* Arena's Iter::next / IterMut::next: free entries are passed over
ArenaNext(k) ==
    /\ iters[k].live
    /\ iters[k].engine = "arena"
    /\ LET found == DefensiveSkip(entities, << >>, iters[k].rest)
       IN /\ last' = [NoCall EXCEPT !.op = "next", !.some = (found # << >>),
                                    !.id = IF found = << >> THEN NoId
                                           ELSE ArenaIdAt(entities, Head(found))]
          /\ iters' = [iters EXCEPT ![k].rest = IF found = << >> THEN << >> ELSE Tail(found)]
    /\ UNCHANGED <<entities, bitsets, issued, removed, twin>>

\* the iterator goes out of scope: its borrow of the list ends
IterDrop(k) ==
    /\ iters[k].live
    /\ last' = [NoCall EXCEPT !.op = "drop"]
    /\ iters' = [iters EXCEPT ![k] = NoIter]
    /\ UNCHANGED <<entities, bitsets, issued, removed, twin>>

\* the list's calls restricted to component type A, and the traversals
NextTraversal ==
    \/ \E e \in {x \in NewEntities : x.comps["B"] = NoneC} : Insert(e)
    \/ \E id \in CallerIds : Remove(id)
    \/ \E id \in CallerIds : AddComponentForEntity(id, "A", 1)
    \/ \E id \in CallerIds : RemoveComponentForEntity(id, "A")
    \/ AddBitsetForComponent("A")
    \/ RemoveBitsetForComponent("A")
    \/ \E dels \in SUBSET LiveIds(entities) : Retain(dels)
    \/ \E k \in IterSlots, tuple \in TraversalTuples : IterForComponentsStart(k, tuple)
    \/ \E k \in IterSlots, tuple \in TraversalTuples : IterMutForComponentsStart(k, tuple)
    \/ \E k \in IterSlots, tuple \in TraversalTuples : IterStart(k, tuple)
    \/ \E k \in IterSlots, tuple \in TraversalTuples : IterMutStart(k, tuple)
    \/ \E k \in IterSlots, mutable \in BOOLEAN : IterAllStart(k, mutable)
    \/ \E k \in IterSlots : ArenaNext(k)
    \/ \E k \in IterSlots : DefensiveNext(k)
    \/ \E k \in IterSlots : TrustingNext(k)
    \/ \E k \in IterSlots : IterDrop(k)

SpecTraversal == Init /\ [][NextTraversal]_vars

\* `for (id, e) in list.iter_for_components::<C>() { .. }`: the loop keeps
\* calling next() for as long as the iterator lives
SpecTraversalLoop ==
    SpecTraversal /\ \A k \in IterSlots : WF_vars(DefensiveNext(k))

\* ------------------------------------------------ out-of-band mutation
\* `list.get_mut(id)` followed by Component::set / EntityBase::add on the
\* reference it returns: the record changes, no bitset is told
GetMutSet(id, c, v) ==
    /\ Unborrowed
    /\ ArenaContains(entities, id)
    /\ last' = [NoCall EXCEPT !.op = "get_mut"]
    /\ entities' = ArenaSetComponent(entities, id, c, v)
    /\ UNCHANGED <<bitsets, issued, removed, iters, twin>>

\* `list.get_mut(id)` followed by EntityBase::remove::<C> on the reference
GetMutRemove(id, c) ==
    /\ Unborrowed
    /\ ArenaContains(entities, id)
    /\ last' = [NoCall EXCEPT !.op = "get_mut"]
    /\ entities' = ArenaTakeComponent(entities, id, c)
    /\ UNCHANGED <<bitsets, issued, removed, iters, twin>>

NextGetMut ==
    \/ NextRetain
    \/ \E id \in CallerIds, c \in Comps : \E v \in Vals(c) : GetMutSet(id, c, v)
    \/ \E id \in CallerIds, c \in Comps : GetMutRemove(id, c)

SpecGetMut == Init /\ [][NextGetMut]_vars

\* the list's own API without retain, and out-of-band presence changes
NextOutOfBand ==
    \/ Next
    \/ \E id \in CallerIds : GetMutSet(id, "A", 1)
    \/ \E id \in CallerIds : GetMutRemove(id, "A")

SpecOutOfBand == Init /\ [][NextOutOfBand]_vars

\* ------------------------------------------------------ snapshots: serde.rs
\* `self.entities.serialize(serializer)`: the arena's entries in order, an
\* occupied one as Some((generation, value)), a free one as None; neither the
\* arena's counter, nor its free list, nor any bitset is written
ArenaSerialize(a) ==
    [j \in 1 .. Len(a.items) |->
        IF a.items[j].occ
        THEN [some |-> TRUE, generation |-> a.items[j].generation, value |-> a.items[j].value]
        ELSE [some |-> FALSE, generation |-> 0, value |-> NoEntity]]

\* the free list an arena gets on load: walking the entries from the last to
\* the first, each free one is pushed on the head of the list
RECURSIVE FreeListFrom(_, _)
FreeListFrom(ser, j) ==
    IF j > Len(ser) THEN NoIdx
    ELSE IF ~ser[j].some THEN j - 1
    ELSE FreeListFrom(ser, j + 1)

RECURSIVE MaxGenerationOf(_, _)
MaxGenerationOf(ser, j) ==
    IF j > Len(ser) THEN 0
    ELSE LET rest == MaxGenerationOf(ser, j + 1)
         IN IF ser[j].some /\ ser[j].generation > rest THEN ser[j].generation ELSE rest

\* variant of the arena's load that packs the occupied entries together
ArenaDeserializePacking(ser) ==
    LET occ == SelectSeq(ser, LAMBDA x : x.some)
    IN [items |-> [j \in 1 .. Len(occ) |-> OccEntry(occ[j].generation, occ[j].value)],
        generation |-> MaxGenerationOf(ser, 1),
        free_list_head |-> NoIdx,
        len |-> Len(occ)]

\* `let arena: Arena<E> = Deserialize::deserialize(deserializer)?`: the entries
\* keep their positions and generations; the counter restarts at the largest
\* generation of an occupied entry
ArenaDeserialize(ser) ==
    [items |-> [j \in 1 .. Len(ser) |->
                   IF ser[j].some THEN OccEntry(ser[j].generation, ser[j].value)
                   ELSE FreeEntry(FreeListFrom(ser, j + 1))],
     generation |-> MaxGenerationOf(ser, 1),
     free_list_head |-> FreeListFrom(ser, 1),
     len |-> Len(SelectSeq(ser, LAMBDA x : x.some))]

\* EntityList::from_arena: the bitsets of the types that were registered are
\* rebuilt by a scan of the loaded pool
FromArenaBitsets(a, registered) ==
    [c \in Comps |-> IF c \in registered THEN MkBitSet(ScanBitSet(a, c)) ELSE NoBitSet]

Registered(b) == {c \in Comps : b[c].present}

\* bincode::serialize(&entity_list) then bincode::deserialize(&bytes): the
\* list is replaced by the one loaded from its own snapshot
Deserialize ==
    /\ Unborrowed
    /\ last' = [NoCall EXCEPT !.op = "deserialize"]
    /\ entities' = ArenaDeserialize(ArenaSerialize(entities))
    /\ bitsets' = FromArenaBitsets(entities', Registered(bitsets))
    /\ UNCHANGED <<issued, removed, iters, twin>>

NextSerde ==
    \/ \E e \in NewEntities : e.comps["B"] = NoneC /\ Insert(e)
    \/ \E id \in CallerIds : Remove(id)
    \/ \E id \in CallerIds : AddComponentForEntity(id, "A", 1)
    \/ \E id \in CallerIds : RemoveComponentForEntity(id, "A")
    \/ \E c \in Comps : AddBitsetForComponent(c)
    \/ \E c \in Comps : RemoveBitsetForComponent(c)
    \/ \E id \in CallerIds : GetMutSet(id, "A", 1)
    \/ \E id \in CallerIds : GetMutRemove(id, "A")
    \/ Deserialize

SpecSerde == Init /\ [][NextSerde]_vars

\* ------------------------------------------- one record's own API: entity.rs
\* the declared component types in declaration order (define_entity!)
CompOrder == <<"A", "B">>

\* Component::get / EntityBase::get: the Option held by the slot
ComponentGet(e, c) == e.comps[c]

\* variant of Component::remove's result that is always None
ComponentTakeNothing(e, c) == NoneC

\* Component::remove's result: what Option::take hands back
ComponentTake(e, c) == e.comps[c]

\* the closures a caller passes to peek / mutate / with_mutation: one leaves
\* the payload alone, one writes another payload; the result a closure returns
\* tells which closure ran and on which payload
Closures == {"keep", "change"}
Call(f, c, v) ==
    IF f = "keep" \/ Vals(c) = {v} THEN v ELSE CHOOSE w \in Vals(c) : w # v
Out(f, v) == <<f, v>>
NoOut == << >>

\* what one entity-level call gives: the record afterwards, the returned
\* Option (has: is it Some; val: a payload; out: a closure's result) and the
\* calls made to the caller's closure or callback, in order
Result(e, has, val, out, log) ==
    [entity |-> e, some |-> has, val |-> val, out |-> out, log |-> log]

\* Component::peek / EntityBase::peek: `self.get::<C>().map(f)`
ComponentPeek(e, c, f) ==
    IF Has(e, c)
    THEN Result(e, TRUE, NoneC, Out(f, ComponentGet(e, c)), <<[name |-> f, arg |-> ComponentGet(e, c)]>>)
    ELSE Result(e, FALSE, NoneC, NoOut, << >>)

\* variant of Component::update that runs the closure on a default payload
\* when the slot is empty
ComponentUpdateOrInsert(e, c, f) ==
    LET v == IF Has(e, c) THEN ComponentGet(e, c) ELSE CHOOSE w \in InitVals : TRUE
    IN Result(ComponentSet(e, c, Call(f, c, v)), TRUE, NoneC, Out(f, v), <<[name |-> f, arg |-> v]>>)

\* Component::update / EntityBase::mutate / with_mutation:
\* `self.get_mut::<C>().map(f)`
ComponentUpdate(e, c, f) ==
    IF Has(e, c)
    THEN Result(ComponentSet(e, c, Call(f, c, ComponentGet(e, c))), TRUE, NoneC,
                Out(f, ComponentGet(e, c)), <<[name |-> f, arg |-> ComponentGet(e, c)]>>)
    ELSE Result(e, FALSE, NoneC, NoOut, << >>)

\* ChangeComponent<C>
ChangeComponents(c) ==
    {[kind |-> "NoChange", v |-> NoneC, f |-> "keep"], [kind |-> "Remove", v |-> NoneC, f |-> "keep"]}
      \cup {[kind |-> "Replace", v |-> v, f |-> "keep"] : v \in Vals(c)}
      \cup {[kind |-> "Mutate", v |-> NoneC, f |-> f] : f \in Closures}

\* variant of with_component_change in which Mutate on an empty slot fills it
WithComponentChangeFilling(e, c, change) ==
    IF change.kind = "NoChange" THEN e
    ELSE IF change.kind = "Remove" THEN ComponentRemove(e, c)
    ELSE IF change.kind = "Replace" THEN ComponentSet(e, c, change.v)
    ELSE ComponentUpdateOrInsert(e, c, change.f).entity

\* EntityBase::with_component_change, the closure having returned `change`
WithComponentChange(e, c, change) ==
    IF change.kind = "NoChange" THEN e
    ELSE IF change.kind = "Remove" THEN ComponentRemove(e, c)
    ELSE IF change.kind = "Replace" THEN ComponentSet(e, c, change.v)
    ELSE ComponentUpdate(e, c, change.f).entity

\* variant of for_each_active_component that calls back for every declared type
ForEachActiveComponentAll(e) ==
    [j \in 1 .. Len(CompOrder) |-> [name |-> CompOrder[j], arg |-> TRUE]]

\* EntityBase::for_each_active_component: `if self.$c.is_some() { f(TypeId) }`
\* for each declared type in turn
ForEachActiveComponent(e) ==
    LET is_some(x) == Has(e, x.name)
    IN SelectSeq([j \in 1 .. Len(CompOrder) |-> [name |-> CompOrder[j], arg |-> TRUE]], is_some)

\* EntityBase::for_each_component: `f(TypeId, self.$c.is_some())`
ForEachComponent(e) ==
    [j \in 1 .. Len(CompOrder) |-> [name |-> CompOrder[j], arg |-> Has(e, CompOrder[j])]]

\* EntityBase::for_all_components: `for component_id in components_type_ids`
ForAllComponents ==
    [j \in 1 .. Len(CompOrder) |-> [name |-> CompOrder[j], arg |-> TRUE]]

\* a call of the record's own API on `entity_list.get_mut(id).unwrap()`
\* (tests/basic.rs entity_ops): the record is replaced by the call's result
EntityCall(id, op, c, arg, res) ==
    /\ Unborrowed
    /\ ArenaContains(entities, id)
    /\ last' = [op |-> op, id |-> id, some |-> res.some, val |-> res.val,
                comp |-> c, arg |-> arg, out |-> res.out, log |-> res.log]
    /\ entities' = [entities EXCEPT !.items[id.index + 1].value = res.entity]
    /\ UNCHANGED <<bitsets, issued, removed, iters, twin>>

SetOps == {"set", "with", "add"}
RemoveOps == {"remove", "with_removed"}
MutateOps == {"update", "mutate", "with_mutation", "get_mut"}
ForEachOps == {"for_each_active_component", "for_each_component", "for_all_components"}

\* Component::set, EntityBase::with, EntityBase::add
EntitySet(id, op, c, v) ==
    EntityCall(id, op, c, [kind |-> "Replace", v |-> v, f |-> "keep"],
               Result(ComponentSet(ArenaGet(entities, id), c, v), FALSE, NoneC, NoOut, << >>))

\* Component::remove, EntityBase::remove (the previous payload is returned),
\* EntityBase::with_removed
EntityRemove(id, op, c) ==
    LET e == ArenaGet(entities, id)
    IN EntityCall(id, op, c, [kind |-> "Remove", v |-> NoneC, f |-> "keep"],
                  Result(ComponentRemove(e, c), ComponentTake(e, c) # NoneC,
                         ComponentTake(e, c), NoOut, << >>))

\* EntityBase::has together with EntityBase::get
EntityGet(id, c) ==
    LET e == ArenaGet(entities, id)
    IN EntityCall(id, "get", c, [kind |-> "NoChange", v |-> NoneC, f |-> "keep"],
                  Result(e, Has(e, c), ComponentGet(e, c), NoOut, << >>))

\* Component::update, EntityBase::mutate, EntityBase::with_mutation, and a
\* write through the reference EntityBase::get_mut gives
EntityMutate(id, op, c, f) ==
    EntityCall(id, op, c, [kind |-> "Mutate", v |-> NoneC, f |-> f],
               ComponentUpdate(ArenaGet(entities, id), c, f))

\* Component::peek, EntityBase::peek
EntityPeek(id, c, f) ==
    EntityCall(id, "peek", c, [kind |-> "NoChange", v |-> NoneC, f |-> f],
               ComponentPeek(ArenaGet(entities, id), c, f))

\* EntityBase::with_component_change, the caller's closure reading the
\* record and answering `change`
EntityWithComponentChange(id, c, change) ==
    EntityCall(id, "with_component_change", c, change,
               Result(WithComponentChange(ArenaGet(entities, id), c, change),
                      FALSE, NoneC, NoOut, << >>))

\* for_each_active_component, for_each_component, for_all_components
EntityForEach(id, op) ==
    LET e == ArenaGet(entities, id)
    IN EntityCall(id, op, "A", [kind |-> "NoChange", v |-> NoneC, f |-> "keep"],
                  Result(e, FALSE, NoneC, NoOut,
                         IF op = "for_each_active_component" THEN ForEachActiveComponent(e)
                         ELSE IF op = "for_each_component" THEN ForEachComponent(e)
                         ELSE ForAllComponents))

NextEntity ==
    \/ \E e \in NewEntities : Insert(e)
    \/ AddBitsetForComponent("A")
    \/ \E id \in CallerIds, op \in SetOps, c \in Comps : \E v \in Vals(c) : EntitySet(id, op, c, v)
    \/ \E id \in CallerIds, op \in RemoveOps, c \in Comps : EntityRemove(id, op, c)
    \/ \E id \in CallerIds, c \in Comps : EntityGet(id, c)
    \/ \E id \in CallerIds, op \in MutateOps, c \in Comps, f \in Closures : EntityMutate(id, op, c, f)
    \/ \E id \in CallerIds, c \in Comps, f \in Closures : EntityPeek(id, c, f)
    \/ \E id \in CallerIds, c \in Comps :
          \E change \in ChangeComponents(c) : EntityWithComponentChange(id, c, change)
    \/ \E id \in CallerIds, op \in ForEachOps : EntityForEach(id, op)

SpecEntity == Init /\ [][NextEntity]_vars
\* ================================================================ claims
\* ids that are live according to the call history alone
LiveByHistory == IssuedIds \ removed

\* the property tag the k-th inserted record was created with
TagOf(id) == CHOOSE k \in 1 .. Len(issued) : issued[k] = id

\* a slot index that has been handed out more than once
Recycled(id) == \E k \in 1 .. Len(issued) : issued[k].index = id.index /\ issued[k] # id

Ascending(out) == \A k \in 1 .. (Len(out) - 1) : out[k].id.index < out[k + 1].id.index

YieldedIds(out) == {out[k].id : k \in 1 .. Len(out)}

\* C1: an id returned by insert is contained, and get returns the record it
\* was issued for, in every state until remove or retain takes its record out;
\* from then on contains is false and get is None, also once the slot is reused
C1_IdentifierIntegrity ==
    \A id \in IssuedIds :
        IF id \in removed
        THEN ~ArenaContains(entities, id) /\ ArenaGet(entities, id) = NoEntity
        ELSE ArenaContains(entities, id) /\ ArenaGet(entities, id).prop = TagOf(id)

\* a removed id whose slot now holds a later record
C1_Witness ==
    \E old \in removed : \E new \in LiveByHistory :
        new.index = old.index /\ ArenaContains(entities, new)

\* C2: after every call of the index-maintaining API, bit p of every
\* registered bitset is set iff slot p holds a record that has the component
C2_IndexCorrectness ==
    \A c \in Comps : bitsets[c].present =>
        \A p \in BitSetAll :
            (p \in bitsets[c].bits) <=>
                (ArenaOccupiedAt(entities, p) /\ Has(entities.items[p + 1].value, c))

\* a bitset that survived a removal and a slot reuse, with set and clear bits
C2_Witness ==
    /\ removed # {}
    /\ \E c \in Comps : \E p, q \in 0 .. (ArenaCapacity(entities) - 1) :
           /\ bitsets[c].present
           /\ p \in bitsets[c].bits
           /\ q \notin bitsets[c].bits
           /\ ArenaOccupiedAt(entities, q)
           /\ Recycled(ArenaIdAt(entities, q))

\* the live ids whose record has every component of the tuple
Matching(tuple) ==
    {id \in LiveIds(entities) : \A k \in 1 .. Len(tuple) : ArenaGet(entities, id).comps[tuple[k]] # NoneC}

\* C3: the defensive engine yields exactly the live records that have every
\* component of the tuple, whichever of the tuple's types have a bitset
C3_ConjunctionCorrectness ==
    \A tuple \in Tuples :
        LET out == IterForComponents(entities, bitsets, tuple)
        IN /\ YieldedIds(out) = Matching(tuple)
           /\ \A k \in 1 .. Len(out) : out[k].value = ArenaGet(entities, out[k].id)

\* a two-type query, one type indexed and one not, that matches some records
\* and leaves others out
C3_Witness ==
    /\ bitsets["A"].present
    /\ ~bitsets["B"].present
    /\ Matching(<<"A", "B">>) # {}
    /\ Matching(<<"A", "B">>) # LiveIds(entities)
    /\ Matching(<<"B">>) # Matching(<<"A", "B">>)

\* C4: every traversal yields its records in strictly ascending slot position
C4_Ordering ==
    /\ Ascending(ArenaIter(entities))
    /\ \A tuple \in Tuples : Ascending(IterForComponents(entities, bitsets, tuple))
    /\ \A tuple \in Tuples \cup {<< >>} : Ascending(TrustingIter(entities, bitsets, tuple).out)

\* a store with a recycled slot where both engines yield several records
C4_Witness ==
    /\ \E id \in LiveIds(entities) : Recycled(id)
    /\ Len(IterForComponents(entities, bitsets, <<"A">>)) >= 2
    /\ Len(TrustingIter(entities, bitsets, <<"A">>).out) >= 2
    /\ Len(ArenaIter(entities)) >= 2
\* C5: retain(predicate) deletes exactly the live entities for which the
\* predicate returns true (dels) and keeps the others; len() counts the kept
C5_RetainDeletesWherePredicateTrue ==
    [][\A dels \in SUBSET LiveIds(entities) :
          Retain(dels) =>
              /\ \A id \in LiveIds(entities) : ArenaContains(entities', id) <=> id \notin dels
              /\ entities'.len = Cardinality(LiveIds(entities) \ dels)]_vars

\* no registered bitset has a bit at a position the trusting engine would find empty
NoStaleBit ==
    \A c \in Comps : bitsets[c].present =>
        \A p \in BitSetAll :
            (p \in bitsets[c].bits) <=>
                (ArenaOccupiedAt(entities, p) /\ entities.items[p + 1].value.comps[c] # NoneC)

TrustingNeverPanics ==
    \A tuple \in Tuples :
        (\A k \in 1 .. Len(tuple) : bitsets[tuple[k]].present) =>
            ~TrustingIter(entities, bitsets, tuple).panic

\* C6: retain keeps the bitsets exact: when they are exact before, they are
\* exact after, and no trusting traversal over registered bitsets then panics
C6_RetainKeepsIndex ==
    [][\A dels \in SUBSET LiveIds(entities) :
          (Retain(dels) /\ NoStaleBit) => (NoStaleBit' /\ TrustingNeverPanics')]_vars

\* C7: an id issued for a slot carries a strictly greater generation than
\* every id issued for that slot before it; the generation a slot stores is
\* never below that of an id issued for it earlier, nor above the arena's
\* counter; and no removed id addresses the record now in its slot
C7_GenerationsGrow ==
    /\ \A j, k \in 1 .. Len(issued) :
           (j < k /\ issued[j].index = issued[k].index) =>
               issued[j].generation < issued[k].generation
    /\ \A n \in 0 .. (ArenaCapacity(entities) - 1) :
           ArenaOccupiedAt(entities, n) =>
               /\ entities.items[n + 1].generation <= entities.generation
               /\ ArenaIdAt(entities, n) \notin removed
               /\ \A id \in IssuedIds :
                      id.index = n => id.generation <= entities.items[n + 1].generation
    /\ \A old \in removed : ~ArenaContains(entities, old) /\ ArenaGet(entities, old) = NoEntity

\* insert has just landed on a slot whose earlier id was removed
C7_Witness ==
    /\ last.op = "insert"
    /\ \E old \in removed : old.index = last.id.index /\ old.generation < last.id.generation
    /\ ArenaContains(entities, last.id)

\* ids that address no record: removed ones and ones never issued
StaleIds == removed \cup UnknownIds

StoreUnchanged == entities' = entities /\ bitsets' = bitsets

\* C8: with a stale or unknown id, get is None, contains is false, remove and
\* remove_component_for_entity return None, add_component_for_entity hands the
\* component back, and the arena and every bitset stay as they were
C8_AbsenceNotFailure ==
    [][\A id \in StaleIds :
          /\ ~ArenaContains(entities, id)
          /\ ArenaGet(entities, id) = NoEntity
          /\ last'.op = "remove" =>
                \/ ~last'.some /\ StoreUnchanged
                \/ ~Remove(id)
          /\ last'.op = "remove_component" =>
                \A c \in Comps :
                    \/ ~last'.some /\ StoreUnchanged
                    \/ ~RemoveComponentForEntity(id, c)
          /\ last'.op = "add_component" =>
                \A c \in Comps : \A v \in Vals(c) :
                    \/ last'.some /\ last'.val = v /\ StoreUnchanged
                    \/ ~AddComponentForEntity(id, c, v)]_vars

\* add_component_for_entity has handed its component back while a removed id's
\* slot holds a newer record that is indexed
C8_Witness ==
    /\ last.op = "add_component"
    /\ last.some
    /\ \E old \in removed : \E new \in LiveByHistory : \E c \in Comps :
           /\ new.index = old.index
           /\ bitsets[c].present
           /\ new.index \in bitsets[c].bits

\* the single-type traversals of both engines match the record of id iff it has c
MatchedIffHas(id, c) ==
    /\ (id \in YieldedIds(IterForComponents(entities, bitsets, <<c>>)))
           <=> (ArenaGet(entities, id).comps[c] # NoneC)
    /\ bitsets[c].present =>
           /\ ~TrustingIter(entities, bitsets, <<c>>).panic
           /\ (id \in YieldedIds(TrustingIter(entities, bitsets, <<c>>).out))
                  <=> (ArenaGet(entities, id).comps[c] # NoneC)

\* C9: a successful remove(id) leaves the bit of id's slot clear in every
\* registered bitset, and a record living in a recycled slot is matched by a
\* T-filtered traversal iff that record itself has T
C9_NoInheritedBits ==
    /\ (last.op = "remove" /\ last.some) =>
           \A c \in Comps : bitsets[c].present => last.id.index \notin bitsets[c].bits
    /\ \A id \in LiveIds(entities) :
           Recycled(id) => \A c \in Comps : MatchedIffHas(id, c)

\* a recycled slot whose earlier record had an indexed component the new one lacks
C9_Witness ==
    /\ last.op = "insert"
    /\ Recycled(last.id)
    /\ \E c \in Comps :
           /\ bitsets[c].present
           /\ ArenaGet(entities, last.id).comps[c] = NoneC
           /\ bitsets[c].bits # {}

\* C10: add_component_for_entity(id, c) returns None exactly when id is live;
\* then the record has C = c, the slot's bit is set in C's bitset if there is
\* one, and len() is unchanged; otherwise it returns Some(c), changing nothing
C10_AddComponent ==
    [][last'.op = "add_component" =>
       LET live == LiveByHistory
       IN \A c \in Comps : \A v \in Vals(c) :
             /\ \A id \in live :
                   \/ /\ ~last'.some
                      /\ ArenaGet(entities', id).comps[c] = v
                      /\ bitsets'[c].present => id.index \in bitsets'[c].bits
                      /\ entities'.len = entities.len
                   \/ ~AddComponentForEntity(id, c, v)
             /\ \A id \in CallerIds \ live :
                   \/ last'.some /\ last'.val = v /\ StoreUnchanged
                   \/ ~AddComponentForEntity(id, c, v)]_vars

\* a value replaced by add_component_for_entity on an indexed component
C10_Witness ==
    /\ last.op = "add_component"
    /\ ~last.some
    /\ bitsets["A"].present
    /\ \E id \in LiveIds(entities) :
           ArenaGet(entities, id).comps["A"] = 2 /\ id.index \in bitsets["A"].bits

\* C11: remove_component_for_entity::<C>(id) returns Some(previous value)
\* exactly when id is live and its record has C; the record then lacks C, stays
\* live, and the slot's bit is clear in C's bitset if there is one; for a stale
\* id or a record without C it returns None and changes no record and no bitset
C11_RemoveComponent ==
    [][last'.op = "remove_component" =>
       LET live == LiveByHistory
       IN \A c \in Comps :
             /\ \A id \in live :
                   \/ IF Has(ArenaGet(entities, id), c)
                      THEN /\ last'.some
                           /\ last'.val = ArenaGet(entities, id).comps[c]
                           /\ ArenaContains(entities', id)
                           /\ ~Has(ArenaGet(entities', id), c)
                           /\ ArenaGet(entities', id) = ComponentRemove(ArenaGet(entities, id), c)
                           /\ bitsets'[c].present => id.index \notin bitsets'[c].bits
                           /\ entities'.len = entities.len
                      ELSE ~last'.some /\ StoreUnchanged
                   \/ ~RemoveComponentForEntity(id, c)
             /\ \A id \in CallerIds \ live :
                   \/ ~last'.some /\ StoreUnchanged
                   \/ ~RemoveComponentForEntity(id, c)]_vars

\* remove_component_for_entity has taken an indexed component out of a record
\* that lives in a recycled slot
C11_Witness ==
    /\ last.op = "remove_component"
    /\ last.some
    /\ \E id \in LiveIds(entities) : \E c \in Comps :
           /\ Recycled(id)
           /\ bitsets[c].present
           /\ ~Has(ArenaGet(entities, id), c)
           /\ id.index \notin bitsets[c].bits

\* bit p of c's bitset is set exactly for the occupied slots whose record has c
ExactBitSet(b, a, c) ==
    /\ b[c].present
    /\ \A p \in BitSetAll :
           (p \in b[c].bits) <=> (ArenaOccupiedAt(a, p) /\ Has(a.items[p + 1].value, c))

\* C12: add_bitset_for_component::<T>(), called in any store state (no T
\* bitset yet, one built before, or one made stale by out-of-band mutation or
\* by retain), leaves T's bitset with bit p set exactly for the occupied slots
\* whose record has T, and leaves all records and all other bitsets unchanged
C12_OnDemandBuild ==
    [][last'.op = "add_bitset" =>
       \A c \in Comps :
           \/ /\ ExactBitSet(bitsets', entities', c)
              /\ entities' = entities
              /\ \A d \in Comps \ {c} : bitsets'[d] = bitsets[d]
           \/ ~AddBitsetForComponent(c)]_vars

\* a bitset has just been rebuilt over a previous one, with set and clear bits
\* at occupied slots, in a store where out-of-band mutation has left the other
\* type's bitset stale
C12_Witness ==
    /\ last.op = "add_bitset"
    /\ last.some
    /\ \E c \in Comps : \E p, q \in 0 .. (ArenaCapacity(entities) - 1) :
           /\ ExactBitSet(bitsets, entities, c)
           /\ p \in bitsets[c].bits
           /\ q \notin bitsets[c].bits
           /\ ArenaOccupiedAt(entities, q)
           /\ \E d \in Comps \ {c} : bitsets[d].present /\ ~ExactBitSet(bitsets, entities, d)

\* C13: with the same record mutations, a T bitset that was dropped and built
\* again equals the T bitset of a list that registered it at the start and never
\* dropped it; and add_bitset_for_component called on the bitset it has just
\* produced yields that bitset again
C13_RebuildIdempotence ==
    /\ [](\A c \in Comps : bitsets[c].present => bitsets[c] = twin[c])
    /\ [][\A c \in Comps :
             (bitsets[c] = MkBitSet(ScanBitSet(entities, c)) /\ AddBitsetForComponent(c))
                 => bitsets' = bitsets]_vars

\* add_bitset_for_component has just built a bitset where none was (it had
\* been dropped), after removals and slot reuse, and both bitsets have a bit set
C13_Witness ==
    /\ last.op = "add_bitset"
    /\ ~last.some
    /\ \E id \in LiveIds(entities) : Recycled(id)
    /\ \A c \in Comps : bitsets[c].present /\ bitsets[c].bits # {} /\ bitsets[c] = twin[c]
    /\ twin["A"] # twin["B"]

\* the ids of the occupied slots whose position is set in every bitset that is
\* registered for a type of the tuple
WildcardMatches(tuple) ==
    {id \in LiveIds(entities) :
        \A k \in 1 .. Len(tuple) :
            bitsets[tuple[k]].present => id.index \in bitsets[tuple[k]].bits}

\* C14: the trusting engine, called with a tuple naming a type that has no
\* bitset, does not fail and lets that type match every occupied slot
C14_MissingIndexIsWildcard ==
    \A tuple \in Tuples :
        (\E k \in 1 .. Len(tuple) : ~bitsets[tuple[k]].present) =>
            LET r == TrustingIter(entities, bitsets, tuple)
            IN ~r.panic /\ YieldedIds(r.out) = WildcardMatches(tuple)

\* C15: the trusting engine's traversal for the empty tuple yields exactly the
\* occupied slots, each once, in ascending position, and ends without failure
C15_EmptyTupleQuery ==
    LET r == TrustingIter(entities, bitsets, << >>)
    IN ~r.panic /\ r.out = ArenaIter(entities)

\* the positions of the items in a traversal's output
YieldedPositions(out) == {out[k].id.index : k \in 1 .. Len(out)}

\* C16: in the trusting engine, when the combined bitset has a bit at a
\* position where the pool holds no record, the traversal aborts there: it has
\* yielded exactly the set positions below the first such position, nothing at or
\* beyond it, and does not end with None
C16_TrustingEmptySlotAborts ==
    \A tuple \in Tuples \cup {<< >>} :
        LET bs == TrustingBitSet(bitsets, tuple)
            r == TrustingIter(entities, bitsets, tuple)
            empties == {p \in bs.bits : ~ArenaOccupiedAt(entities, p)}
        IN (~bs.panic /\ empties # {}) =>
              /\ r.panic
              /\ YieldedPositions(r.out) =
                     {p \in bs.bits : \A q \in empties : p < q}

\* a registered bitset with a bit at an occupied slot and, above it, a bit at a
\* slot that retain has emptied: one item is yielded, then the abort
C16_Witness ==
    \E c \in Comps : \E p, q \in BitSetAll :
        /\ bitsets[c].present
        /\ p < q
        /\ p \in bitsets[c].bits /\ ArenaOccupiedAt(entities, p)
        /\ q \in bitsets[c].bits /\ ~ArenaOccupiedAt(entities, q)
        /\ q < ArenaCapacity(entities)
        /\ TrustingIter(entities, bitsets, <<c>>).panic
        /\ Len(TrustingIter(entities, bitsets, <<c>>).out) = 1

\* C17: in the trusting engine, when T's bitset has the bit of slot p set but
\* the record in slot p lacks T, the T-filtered traversal aborts and does not
\* yield that record
C17_TrustingRecordLackingT ==
    \A c \in Comps : bitsets[c].present =>
        \A p \in bitsets[c].bits :
            (ArenaOccupiedAt(entities, p) /\ ~Has(entities.items[p + 1].value, c)) =>
                LET r == TrustingIter(entities, bitsets, <<c>>)
                IN r.panic /\ p \notin YieldedPositions(r.out)

\* C18: in any store state, stale bitsets included, the defensive engine
\* yields only live records that have every requested component, each with its
\* current id; a set position whose slot is empty or whose record fails the
\* re-check is passed over, and every later position that qualifies is yielded
C18_DefensiveUnderStaleIndices ==
    \A tuple \in Tuples :
        LET out == IterForComponents(entities, bitsets, tuple)
            bs == DefensiveBitSet(bitsets, tuple, BitSetAll)
        IN /\ \A k \in 1 .. Len(out) :
                  /\ ArenaContains(entities, out[k].id)
                  /\ out[k].value = ArenaGet(entities, out[k].id)
                  /\ \A j \in 1 .. Len(tuple) : Has(out[k].value, tuple[j])
           /\ YieldedPositions(out) =
                  {p \in bs : ArenaOccupiedAt(entities, p)
                                /\ EntityHasComponents(entities.items[p + 1].value, tuple)}

\* a bitset whose lowest set position holds a record that lost the component
\* out of band, followed by a position that still qualifies and is yielded
C18_Witness ==
    \E c \in Comps : \E p, q \in BitSetAll :
        /\ bitsets[c].present
        /\ p < q
        /\ p \in bitsets[c].bits /\ q \in bitsets[c].bits
        /\ ArenaOccupiedAt(entities, p) /\ ~Has(entities.items[p + 1].value, c)
        /\ ArenaOccupiedAt(entities, q) /\ Has(entities.items[q + 1].value, c)
        /\ YieldedPositions(IterForComponents(entities, bitsets, <<c>>)) = {q}

\* no two items of a traversal's output refer to the same slot
NoAliasing(out) ==
    \A j, k \in 1 .. Len(out) : j # k => out[j].id.index # out[k].id.index

\* C19: within one mutable traversal of either engine the positions consumed
\* are strictly increasing, so the debug assertion on n never fails and no two
\* references handed out refer to the same record, for every store and tuple
C19_PositionalUniqueness ==
    /\ \A tuple \in Tuples :
           /\ DebugAssertHolds(DefensiveMutConsumed(bitsets, tuple), NoIdx)
           /\ NoAliasing(IterForComponents(entities, bitsets, tuple))
    /\ \A tuple \in Tuples \cup {<< >>} :
           /\ DebugAssertHolds(TrustingMutConsumed(entities, bitsets, tuple), NoIdx)
           /\ NoAliasing(TrustingIter(entities, bitsets, tuple).out)

\* mutable traversals that hand out two references in both engines, one of
\* them consuming positions it does not yield, in a store with a recycled slot
C19_Witness ==
    /\ bitsets["A"].present /\ ~bitsets["B"].present
    /\ \E id \in LiveIds(entities) : Recycled(id)
    /\ Len(TrustingMutConsumed(entities, bitsets, <<"A">>)) = 2
    /\ Len(IterForComponents(entities, bitsets, <<"B", "A">>)) = 2
    /\ Len(IterForComponents(entities, bitsets, <<"B">>)) = 2
    /\ Len(DefensiveMutConsumed(bitsets, <<"B">>)) > 2

\* the calls that start, advance or end a traversal
TraversalOps == {"iter", "next", "drop", "panic"}

\* C20: while a traversal is in progress no mutating call runs on the list (the
\* arena, the bitsets and the ids issued and removed stay as they are between
\* two next() steps) and no mutable traversal starts; while a mutable traversal
\* is in progress no other traversal starts either; immutable traversals may
\* run side by side
C20_ExclusiveAccess ==
    [][/\ (\E k \in IterSlots : iters[k].live) =>
             /\ entities' = entities /\ bitsets' = bitsets
             /\ issued' = issued /\ removed' = removed
             /\ last'.op \in TraversalOps
             /\ \A j \in IterSlots :
                    (iters'[j].live /\ iters'[j].mutable) => (iters[j].live /\ iters[j].mutable)
       /\ (\E k \in IterSlots : iters[k].live /\ iters[k].mutable) =>
             \A j \in IterSlots : iters'[j].live => iters[j].live]_vars

\* two immutable traversals, one of each engine, both part-way through a store
\* of two matching records, the last call being a next() that yielded an item
C20_Witness ==
    /\ last.op = "next" /\ last.some
    /\ iters[1].live /\ iters[2].live
    /\ ~iters[1].mutable /\ ~iters[2].mutable
    /\ iters[1].engine # iters[2].engine
    /\ Len(iters[1].rest) = 1 /\ Len(iters[2].rest) = 1
    /\ entities.len = 2

\* C21: starting, advancing or ending a traversal of any kind (unfiltered or
\* filtered, immutable or mutable, either engine, a panicking step included)
\* leaves the set of live ids, every generation, len(), every record, the set of
\* registered bitsets and every bit of every bitset as they were
C21_TraversalsReadOnly ==
    [][last'.op \in TraversalOps =>
          /\ LiveIds(entities') = LiveIds(entities)
          /\ entities'.len = entities.len
          /\ entities' = entities
          /\ \A c \in Comps : bitsets'[c].present = bitsets[c].present
          /\ bitsets' = bitsets
          /\ issued' = issued /\ removed' = removed]_vars

\* a mutable filtered traversal has run to its end over a store with two
\* records, one of them matching, and an indexed component
C21_Witness ==
    /\ last.op = "next" /\ ~last.some
    /\ \E k \in IterSlots :
           /\ iters[k].live /\ iters[k].mutable
           /\ iters[k].engine = "defensive"
           /\ iters[k].rest = << >>
           /\ iters[k].n >= 0
    /\ bitsets["A"].present /\ bitsets["A"].bits # {}
    /\ entities.len = 2

\* the loaded list answers get, the unfiltered traversal and every filtered
\* traversal of both engines as the list it was saved from
SameAnswers ==
    /\ \A id \in CallerIds : ArenaGet(entities', id) = ArenaGet(entities, id)
    /\ ArenaIter(entities') = ArenaIter(entities)
    /\ \A tuple \in Tuples :
           /\ IterForComponents(entities', bitsets', tuple)
                 = IterForComponents(entities, bitsets, tuple)
           /\ TrustingIter(entities', bitsets', tuple)
                 = TrustingIter(entities, bitsets, tuple)

\* the loaded list has the bitsets the saved one had, each one exact for the
\* loaded pool
BitsetsRebuilt ==
    \A c \in Comps :
        /\ bitsets'[c].present = bitsets[c].present
        /\ bitsets[c].present => ExactBitSet(bitsets', entities', c)

\* C22 as stated: for every list, loading its snapshot gives a list with the
\* same get(id) for every id ever issued and the same unfiltered and filtered
\* traversals, with the bitsets rebuilt from the pool
C22_SnapshotRoundTrip ==
    [][last'.op = "deserialize" => SameAnswers /\ BitsetsRebuilt]_vars

\* C22, amended: when every bitset of the saved list is exact, loading its
\* snapshot gives a list with the same get(id) for every id ever issued (live
\* or removed), the same unfiltered traversal and the same filtered traversals
\* in the same order; in every case get(id) and the unfiltered traversal are
\* the same and the registered bitsets are rebuilt exact
C22_SnapshotRoundTripExact ==
    [][last'.op = "deserialize" =>
          /\ BitsetsRebuilt
          /\ \A id \in CallerIds : ArenaGet(entities', id) = ArenaGet(entities, id)
          /\ ArenaIter(entities') = ArenaIter(entities)
          /\ (\A c \in Comps : bitsets[c].present => ExactBitSet(bitsets, entities, c))
                => SameAnswers]_vars

\* a list with a removed id, a free slot and a non-empty bitset has been loaded
\* from its snapshot, and the arena's counter restarted below the one saved
C22_Witness ==
    /\ last.op = "deserialize"
    /\ removed # {}
    /\ entities.len >= 1 /\ entities.len < ArenaCapacity(entities)
    /\ \E id \in removed : id.generation > entities.generation \/ entities.generation > 0
    /\ bitsets["A"].present /\ bitsets["A"].bits # {}
    /\ ~bitsets["B"].present

\* the record an entity-level call was made on, before and after the call
Before == ArenaGet(entities, last'.id)
After == ArenaGet(entities', last'.id)

Count(log, c) == Cardinality({j \in 1 .. Len(log) : log[j].name = c})

\* C24: for_each_active_component calls back exactly once for every declared
\* type the record holds and for no other; for_each_component calls back
\* exactly once for every declared type, with a flag equal to has::<T>();
\* for_all_components calls back exactly once for every declared type
C24_ComponentCallbacks ==
    [][/\ last'.op = "for_each_active_component" =>
             \A c \in Comps : Count(last'.log, c) = IF Has(Before, c) THEN 1 ELSE 0
       /\ last'.op = "for_each_component" =>
             /\ \A c \in Comps : Count(last'.log, c) = 1
             /\ \A j \in 1 .. Len(last'.log) : last'.log[j].arg = Has(Before, last'.log[j].name)
       /\ last'.op = "for_all_components" =>
             \A c \in Comps : Count(last'.log, c) = 1
       /\ last'.op \in ForEachOps =>
             /\ \A j \in 1 .. Len(last'.log) : last'.log[j].name \in Comps
             /\ After = Before]_vars

\* for_each_active_component has run on a record holding one of the two
\* declared types and called back once
C24_Witness ==
    /\ last.op = "for_each_active_component"
    /\ Len(last.log) = 1
    /\ Has(ArenaGet(entities, last.id), "B")
    /\ ~Has(ArenaGet(entities, last.id), "A")

\* C28: set, remove, a write through get_mut, mutate and with_component_change
\* for a type T on one record change at most that record's T slot: the
\* record's properties and other component slots, every other record, the
\* pool's bookkeeping and every bitset stay as they were
C28_EntityCallsAreLocal ==
    [][last'.op \in SetOps \cup RemoveOps \cup MutateOps \cup {"with_component_change"} =>
          /\ After.prop = Before.prop
          /\ \A d \in Comps \ {last'.comp} : After.comps[d] = Before.comps[d]
          /\ \A j \in 1 .. ArenaCapacity(entities) :
                 j # last'.id.index + 1 => entities'.items[j] = entities.items[j]
          /\ ArenaCapacity(entities') = ArenaCapacity(entities)
          /\ LiveIds(entities') = LiveIds(entities)
          /\ entities'.len = entities.len
          /\ entities'.generation = entities.generation
          /\ entities'.free_list_head = entities.free_list_head
          /\ bitsets' = bitsets]_vars

\* a remove has emptied the A slot of one of two records, both of which hold B,
\* while A has a bitset
C28_Witness ==
    /\ last.op = "remove" /\ last.comp = "A" /\ last.some
    /\ entities.len = 2
    /\ \A id \in LiveIds(entities) : Has(ArenaGet(entities, id), "B")
    /\ \E id \in LiveIds(entities) : Has(ArenaGet(entities, id), "A")
    /\ bitsets["A"].present /\ bitsets["A"].bits # {}

\* C29: mutate, with_mutation and peek never change which components a record
\* holds; the closure is called exactly once, on the record's C, when the
\* record holds C and not at all otherwise; peek changes nothing; peek and
\* mutate return Some(the closure's result) when the record holds C and None
\* otherwise
C29_ClosureCalls ==
    [][last'.op \in {"mutate", "with_mutation", "peek"} =>
          /\ \A d \in Comps : Has(After, d) = Has(Before, d)
          /\ Len(last'.log) = IF Has(Before, last'.comp) THEN 1 ELSE 0
          /\ Has(Before, last'.comp) =>
                 last'.log[1] = [name |-> last'.arg.f, arg |-> ComponentGet(Before, last'.comp)]
          /\ last'.op = "peek" => After = Before
          /\ last'.op \in {"mutate", "peek"} =>
                 /\ last'.some <=> Has(Before, last'.comp)
                 /\ last'.out = IF Has(Before, last'.comp)
                                THEN Out(last'.arg.f, ComponentGet(Before, last'.comp))
                                ELSE NoOut]_vars

\* mutate has run a closure that wrote another payload into the record's A
C29_Witness ==
    /\ last.op = "mutate" /\ last.comp = "A" /\ last.some
    /\ last.arg.f = "change"
    /\ Len(last.log) = 1
    /\ ComponentGet(ArenaGet(entities, last.id), "A") # last.log[1].arg

\* C30: with_component_change::<C> leaves the record unchanged for NoChange,
\* without C for Remove, holding exactly c for Replace(c) whether or not it
\* held a C, and for Mutate(f) holding f applied to its C when it held one and
\* unchanged, still without C, when it held none
C30_WithComponentChange ==
    [][last'.op = "with_component_change" =>
          /\ last'.arg.kind = "NoChange" => After = Before
          /\ last'.arg.kind = "Remove" => ~Has(After, last'.comp)
          /\ last'.arg.kind = "Replace" => ComponentGet(After, last'.comp) = last'.arg.v
          /\ last'.arg.kind = "Mutate" =>
                 IF Has(Before, last'.comp)
                 THEN ComponentGet(After, last'.comp)
                        = Call(last'.arg.f, last'.comp, ComponentGet(Before, last'.comp))
                 ELSE After = Before /\ ~Has(After, last'.comp)]_vars

\* with_component_change has answered Mutate(f) on a record without C, in a
\* store where another record holds C
C30_Witness ==
    /\ last.op = "with_component_change" /\ last.arg.kind = "Mutate"
    /\ last.arg.f = "change" /\ last.comp = "A"
    /\ ~Has(ArenaGet(entities, last.id), "A")
    /\ \E id \in LiveIds(entities) : Has(ArenaGet(entities, id), "A")

\* the calls that change the pool
PoolOps == {"insert", "remove", "add_component", "remove_component", "retain"}

\* C26: insert, remove, add_component_for_entity, remove_component_for_entity
\* and retain leave a type that has no bitset without one, and with no bitset
\* at all they change nothing but the pool while taking effect on it; the set
\* of types that have a bitset changes only through add_bitset_for_component
\* and remove_bitset_for_component
C26_UnindexedTypes ==
    [][/\ last'.op \notin {"add_bitset", "remove_bitset"} =>
             Registered(bitsets') = Registered(bitsets)
       /\ last'.op \in PoolOps =>
             /\ \A c \in Comps : ~bitsets[c].present => bitsets'[c] = NoBitSet
             /\ Registered(bitsets) = {} => bitsets' = bitsets
       /\ (last'.op = "insert" /\ Registered(bitsets) # Comps) =>
             /\ ArenaContains(entities', last'.id)
             /\ entities'.len = entities.len + 1
       /\ (last'.op = "remove" /\ last'.some /\ Registered(bitsets) # Comps) =>
             /\ ~ArenaContains(entities', last'.id)
             /\ entities'.len = entities.len - 1
       /\ last'.op \in {"add_component", "remove_component"} =>
             \A c \in Comps \ Registered(bitsets) : \A id \in LiveIds(entities) :
                 /\ \A v \in Vals(c) :
                        \/ ComponentGet(ArenaGet(entities', id), c) = v
                        \/ ~AddComponentForEntity(id, c, v)
                 /\ \/ ~Has(ArenaGet(entities', id), c)
                    \/ ~RemoveComponentForEntity(id, c)]_vars

\* remove_component_for_entity has taken the unindexed B out of a record that
\* holds the indexed A
C26_Witness ==
    /\ last.op = "remove_component" /\ last.some
    /\ bitsets["A"].present /\ ~bitsets["B"].present
    /\ entities.len >= 1
    /\ \A id \in LiveIds(entities) :
           Has(ArenaGet(entities, id), "A") /\ id.index \in bitsets["A"].bits

\* C27: remove_bitset_for_component::<T>() returns true exactly when a T
\* bitset was registered; afterwards none is, and the records, the ids, len()
\* and the bitsets of the other types are as before; called when no T bitset is
\* registered (as a second call in a row is) it returns false and changes
\* nothing
C27_RemoveBitset ==
    [][last'.op = "remove_bitset" =>
          \A c \in Comps :
              \/ /\ last'.some <=> bitsets[c].present
                 /\ ~bitsets'[c].present
                 /\ bitsets'[c] = NoBitSet
                 /\ \A d \in Comps \ {c} : bitsets'[d] = bitsets[d]
                 /\ entities' = entities
                 /\ LiveIds(entities') = LiveIds(entities)
                 /\ entities'.len = entities.len
                 /\ ~bitsets[c].present => ~last'.some /\ StoreUnchanged
              \/ ~RemoveBitsetForComponent(c)]_vars

\* remove_bitset_for_component has dropped a non-empty bitset while the other
\* type keeps its own
C27_Witness ==
    /\ last.op = "remove_bitset" /\ last.some
    /\ ~bitsets["A"].present
    /\ bitsets["B"].present /\ bitsets["B"].bits # {}
    /\ \E id \in LiveIds(entities) : Has(ArenaGet(entities, id), "A")

\* record id holds c, c has a bitset, and the record's bit is clear
Hidden(a, b, id, c) ==
    /\ b[c].present
    /\ ArenaContains(a, id)
    /\ Has(ArenaGet(a, id), c)
    /\ id.index \notin b[c].bits

\* some traversal filtered on c, of either engine, yields id
YieldedBySome(a, b, id, c) ==
    \E tuple \in {t \in Tuples : \E j \in 1 .. Len(t) : t[j] = c} :
        \/ id \in YieldedIds(IterForComponents(a, b, tuple))
        \/ id \in YieldedIds(TrustingIter(a, b, tuple).out)

\* the traversals filtered on c alone yield id: the defensive one always, the
\* trusting one unless another stale bit, on an empty slot, aborts it
YieldedByBoth(a, b, id, c) ==
    /\ id \in YieldedIds(IterForComponents(a, b, <<c>>))
    /\ \/ TrustingIter(a, b, <<c>>).panic
       \/ id \in YieldedIds(TrustingIter(a, b, <<c>>).out)

\* C25 as stated: a record that was given T out of band, T having a bitset,
\* is yielded by no T-filtered traversal in any later state until
\* add_component_for_entity::<T> is called for its id or
\* add_bitset_for_component::<T> is called, after which it is yielded
C25_HiddenUntilResync ==
    /\ [](\A id \in LiveIds(entities), c \in Comps :
             Hidden(entities, bitsets, id, c) => ~YieldedBySome(entities, bitsets, id, c))
    /\ [][\A id \in LiveIds(entities), c \in Comps :
             Hidden(entities, bitsets, id, c) =>
                IF \/ last'.op = "add_bitset" /\ AddBitsetForComponent(c)
                   \/ last'.op = "add_component" /\ \E v \in Vals(c) : AddComponentForEntity(id, c, v)
                THEN YieldedByBoth(entities', bitsets', id, c)
                ELSE ~YieldedBySome(entities', bitsets', id, c)]_vars

\* C25, amended: such a record is yielded by no T-filtered traversal in any
\* later state until add_component_for_entity::<T> is called for its id or
\* add_bitset_for_component::<T> is called, after which the T-filtered
\* traversals yield it (the trusting one unless it aborts on another stale
\* bit), or until remove_bitset_for_component::<T> is called, after which T has
\* no bitset
C25_HiddenUntilResyncOrDrop ==
    /\ [](\A id \in LiveIds(entities), c \in Comps :
             Hidden(entities, bitsets, id, c) => ~YieldedBySome(entities, bitsets, id, c))
    /\ [][\A id \in LiveIds(entities), c \in Comps :
             Hidden(entities, bitsets, id, c) =>
                IF \/ last'.op = "add_bitset" /\ AddBitsetForComponent(c)
                   \/ last'.op = "add_component" /\ \E v \in Vals(c) : AddComponentForEntity(id, c, v)
                THEN YieldedByBoth(entities', bitsets', id, c)
                ELSE IF last'.op = "remove_bitset" /\ RemoveBitsetForComponent(c)
                THEN ~bitsets'[c].present
                ELSE ~YieldedBySome(entities', bitsets', id, c)]_vars

\* a record was given A through get_mut while A has a bitset that holds the
\* bit of another record
C25_Witness ==
    /\ last.op = "get_mut"
    /\ \E id \in LiveIds(entities) : Hidden(entities, bitsets, id, "A")
    /\ bitsets["A"].bits # {}

\* the ids of a yielded sequence, in the order yielded
IdSeq(out) == [k \in 1 .. Len(out) |-> out[k].id]

\* the ids of s that every sequence of the family also holds, in s's order
RECURSIVE Intersection(_, _)
Intersection(s, family) ==
    IF family = << >> THEN s
    ELSE Intersection(SelectSeq(s, LAMBDA id : \E k \in 1 .. Len(Head(family)) : Head(family)[k] = id),
                      Tail(family))

\* the tuple with its types in the opposite order
Reversed(tuple) == [k \in 1 .. Len(tuple) |-> tuple[Len(tuple) + 1 - k]]

\* C31: the ids yielded for a tuple (T1..Tn) are, in ascending position, the
\* ids common to the sequences yielded for (T1,), .., (Tn,), and are the same
\* for the tuple in any other order: for the defensive engine always, for the
\* trusting engine whenever its single-type traversals run to their end
C31_ConjunctionIsIntersection ==
    LET singleD == [c \in Comps |-> IdSeq(IterForComponents(entities, bitsets, <<c>>))]
        singleT == [c \in Comps |-> TrustingIter(entities, bitsets, <<c>>)]
    IN \A tuple \in Tuples :
        LET d == IterForComponents(entities, bitsets, tuple)
            t == TrustingIter(entities, bitsets, tuple)
        IN /\ IdSeq(d) = Intersection(singleD[tuple[1]],
                                      [k \in 1 .. (Len(tuple) - 1) |-> singleD[tuple[k + 1]]])
           /\ IterForComponents(entities, bitsets, Reversed(tuple)) = d
           /\ Ascending(d)
           /\ TrustingIter(entities, bitsets, Reversed(tuple)) = t
           /\ (\A k \in 1 .. Len(tuple) : ~singleT[tuple[k]].panic) =>
                  /\ ~t.panic
                  /\ IdSeq(t.out) =
                        Intersection(IdSeq(singleT[tuple[1]].out),
                                     [k \in 1 .. (Len(tuple) - 1) |-> IdSeq(singleT[tuple[k + 1]].out)])
                  /\ Ascending(t.out)

\* both types are indexed, the two single-type sequences differ, neither
\* holds the other, and their intersection is not empty
C31_Witness ==
    /\ bitsets["A"].present /\ bitsets["B"].present
    /\ Len(IterForComponents(entities, bitsets, <<"A", "B">>)) >= 1
    /\ Len(TrustingIter(entities, bitsets, <<"B", "A">>).out) >= 1
    /\ Len(IterForComponents(entities, bitsets, <<"A">>)) > Len(IterForComponents(entities, bitsets, <<"A", "B">>))
    /\ ~TrustingIter(entities, bitsets, <<"A">>).panic
    /\ ~TrustingIter(entities, bitsets, <<"B">>).panic

\* how many times a sequence yields id
Times(out, id) == Cardinality({k \in 1 .. Len(out) : out[k].id = id})

C33_EnginesAgree ==
    \A tuple \in Tuples :
        (\A k \in 1 .. Len(tuple) : bitsets[tuple[k]].present) =>
            /\ ~TrustingIter(entities, bitsets, tuple).panic
            /\ TrustingIter(entities, bitsets, tuple).out
                  = IterForComponents(entities, bitsets, tuple)

\* both types are indexed, a slot has been recycled, the two-type query yields
\* a record and leaves another live record out
C33_Witness ==
    /\ bitsets["A"].present /\ bitsets["B"].present
    /\ \E id \in LiveIds(entities) : Recycled(id)
    /\ Len(TrustingIter(entities, bitsets, <<"A", "B">>).out) >= 1
    /\ Matching(<<"A", "B">>) # LiveIds(entities)
    /\ removed # {}

\* C34: in every state len() is the number of ids insert has returned and
\* that have not been removed, and the number of items the unfiltered traversal
\* yields; an insert raises it by one, a remove of a live id lowers it by one,
\* and a remove of a stale id, add_component_for_entity,
\* remove_component_for_entity, add_bitset_for_component and
\* remove_bitset_for_component leave it as it is
C34_LenIsLiveCount ==
    /\ [](/\ entities.len = Cardinality(LiveByHistory)
          /\ entities.len = Len(ArenaIter(entities)))
    /\ [][/\ last'.op = "insert" => entities'.len = entities.len + 1
          /\ (last'.op = "remove" /\ last'.some) => entities'.len = entities.len - 1
          /\ (last'.op = "remove" /\ ~last'.some) => entities'.len = entities.len
          /\ last'.op \in {"add_component", "remove_component", "add_bitset", "remove_bitset"}
                => entities'.len = entities.len]_vars

\* a remove has lowered len() to one in a pool of two slots, after three inserts
C34_Witness ==
    /\ last.op = "remove" /\ last.some
    /\ entities.len = 1
    /\ ArenaCapacity(entities) = 2
    /\ Len(issued) = 3

\* C35: over any sequence of insert, remove and retain calls (and the other
\* calls of the list), insert never returns an id, as a pair of slot index and
\* generation, that it has returned before, whether that id is still live or not
C35_IdsNeverReissued ==
    \A j, k \in 1 .. Len(issued) :
        j # k => (issued[j].index # issued[k].index \/ issued[j].generation # issued[k].generation)

\* one slot has been given out three times, two of the ids being removed since
C35_Witness ==
    /\ Len(issued) = 3
    /\ \A j \in 1 .. Len(issued) : issued[j].index = issued[1].index
    /\ Cardinality(removed) >= 2

\* every live record but the one at position p keeps its id and its content
OthersKept(p) ==
    \A id \in LiveIds(entities) :
        id.index # p => /\ ArenaContains(entities', id)
                        /\ ArenaGet(entities', id) = ArenaGet(entities, id)

\* no bitset is registered or dropped and no bit changes but at position p
OtherBitsKept(p) ==
    \A c \in Comps :
        /\ bitsets'[c].present = bitsets[c].present
        /\ bitsets'[c].bits \ {p} = bitsets[c].bits \ {p}

\* C36: insert, a remove of a live id, add_component_for_entity and
\* remove_component_for_entity leave the id, the properties and the components
\* of every other live record as they were and change no bit at another
\* position than their target's; an insert into a pool without free slot
\* succeeds, the pool grows, and every record that was live stays where it was
C36_MutationsAreLocal ==
    [][/\ last'.op = "insert" =>
             /\ OthersKept(last'.id.index) /\ OtherBitsKept(last'.id.index)
             /\ ~ArenaOccupiedAt(entities, last'.id.index)
             /\ ArenaContains(entities', last'.id)
             /\ entities.free_list_head = NoIdx =>
                    /\ ArenaCapacity(entities') > ArenaCapacity(entities)
                    /\ last'.id.index >= ArenaCapacity(entities)
                    /\ \A j \in 1 .. ArenaCapacity(entities) :
                           entities'.items[j] = entities.items[j]
       /\ (last'.op = "remove" /\ last'.some) =>
             OthersKept(last'.id.index) /\ OtherBitsKept(last'.id.index)
       /\ last'.op \in {"add_component", "remove_component"} =>
             \A id \in CallerIds :
                 \/ OthersKept(id.index) /\ OtherBitsKept(id.index)
                 \/ \A c \in Comps :
                        /\ \A v \in Vals(c) : ~AddComponentForEntity(id, c, v)
                        /\ ~RemoveComponentForEntity(id, c)]_vars

\* an insert has grown a full pool of one slot to two, both records indexed
C36_Witness ==
    /\ last.op = "insert" /\ last.id.index = 1
    /\ Len(issued) = 2
    /\ entities.len = 2
    /\ bitsets["A"].present /\ bitsets["A"].bits = {0, 1}

\* every pair of a yielded sequence names a live id, with the generation its
\* slot has now, that was not removed, together with the record get gives
Truthful(out) ==
    \A k \in 1 .. Len(out) :
        /\ ArenaContains(entities, out[k].id)
        /\ out[k].id.generation = entities.items[out[k].id.index + 1].generation
        /\ out[k].id \in IssuedIds \ removed
        /\ out[k].value = ArenaGet(entities, out[k].id)

\* C37: every (id, record) pair a traversal yields, be it unfiltered,
\* defensive or trusting, run in one go or call by call, has contains(id) true
\* when it is yielded, carries the current generation of its slot and the
\* record get(id) returns, and is never an id that was removed, also when the
\* slot has been reused or a bitset is stale
C37_YieldedIdsAreLive ==
    /\ Truthful(ArenaIter(entities))
    /\ \A tuple \in Tuples : Truthful(IterForComponents(entities, bitsets, tuple))
    /\ \A tuple \in Tuples \cup {<< >>} : Truthful(TrustingIter(entities, bitsets, tuple).out)
    /\ (last.op = "next" /\ last.some) =>
           /\ ArenaContains(entities, last.id)
           /\ last.id \in IssuedIds \ removed

\* a call of next() on a trusting iterator has yielded the record in a slot
\* whose earlier id was removed
C37_Witness ==
    /\ last.op = "next" /\ last.some
    /\ Recycled(last.id)
    /\ \E id \in removed : id.index = last.id.index
    /\ \E k \in IterSlots : iters[k].live /\ iters[k].engine = "trusting"
    /\ \A k \in IterSlots : iters[k].live => iters[k].engine = "trusting"
====
